---------------------------- MODULE Spec2Model ----------------------------
(***************************************************************************)
(* A model of atooms/postprocessing/gr.py (radial distribution function)   *)
(* and atooms/postprocessing/alpha2.py (non-Gaussian parameter).           *)
(*                                                                         *)
(* Numbers.  Particle coordinates and box sides are integers (lattice      *)
(* units).  A bin edge or a bin center is a fixed-point integer counting   *)
(* 1/Scale lattice units, Scale a power of two, so that every halving the  *)
(* code performs is exact.  A Euclidean distance is kept as [sqrt |-> s],  *)
(* the square root of the integer s; a squared distance is the integer s.  *)
(* A quotient of floats is a record: [kind |-> "fin", num, den] in lowest  *)
(* terms with den > 0, [kind |-> "inf"], or [kind |-> "nan"].              *)
(***************************************************************************)
EXTENDS Integers, Sequences, FiniteSets, TLC

VARIABLES
    k_x, k_y, k_L, k_r, k_out,                 \* one call of a distance kernel
    h_x, h_y, h_L, h_bins, h_bl, h_hist, h_mode, \* one call of a histogram engine
    frames, grandcanonical, same_roles, rgrid, dr, \* RadialDistributionFunction inputs
    skip, side, grid, value,                   \* estimator attributes
    N_0, N_1, r, gr_all, engine_calls, status, ncomputes, \* _compute locals / trace
    pos_unf, discrete_tgrid, timestep, results, a2_call,
    nanalyze, analyze_status                   \* NonGaussianParameter

vars == <<k_x, k_y, k_L, k_r, k_out,
          h_x, h_y, h_L, h_bins, h_bl, h_hist, h_mode,
          frames, grandcanonical, same_roles, rgrid, dr,
          skip, side, grid, value,
          N_0, N_1, r, gr_all, engine_calls, status, ncomputes,
          pos_unf, discrete_tgrid, timestep, results, a2_call,
          nanalyze, analyze_status>>

kernelVars == <<k_x, k_y, k_L, k_r, k_out>>
histVars   == <<h_x, h_y, h_L, h_bins, h_bl, h_hist, h_mode>>
grInputs   == <<frames, grandcanonical, same_roles, rgrid, dr>>
grLocals   == <<N_0, N_1, r, gr_all, engine_calls, status, ncomputes>>
a2Vars     == <<pos_unf, discrete_tgrid, timestep, results, a2_call,
                 nanalyze, analyze_status>>

---------------------------------------------------------------------------
(* Bounds of the model *)

MaxPos == 4        \* kernel inputs: coordinates range over -MaxPos..MaxPos
MaxL == 3          \* kernel inputs: periods range over 1..MaxL
MaxN == 4          \* particles in the set x of a histogram call
MaxM == 2          \* particles in the set y of a cross-pair call
MaxBl == 3         \* batch sizes tried besides the one the code computes
MaxFrames == 2     \* frames of a trajectory
MaxSkip == 2       \* largest stride
MaxComputes == 2   \* _compute invocations on one estimator object
MaxSamples == 3    \* frames of unfolded positions
MaxAnalyze == 2    \* analyze invocations on one estimator object

\* Fixed-point denominator of edges and centers: the constructor halves once
\* and every _compute halves once more.
Scale == 2 ^ (MaxComputes + 2)

Axes == {1, 2}

---------------------------------------------------------------------------
(* Arithmetic *)

Abs(a) == IF a < 0 THEN -a ELSE a
Max(a, b) == IF a >= b THEN a ELSE b
Min(a, b) == IF a <= b THEN a ELSE b

RECURSIVE GCD(_, _)
GCD(a, b) == IF b = 0 THEN a ELSE GCD(b, a % b)

RECURSIVE SeqSum(_)
SeqSum(s) == IF s = <<>> THEN 0 ELSE Head(s) + SeqSum(Tail(s))

\* Float division num/den: inf or nan when den = 0 (numpy warns, never raises).
Quot(num, den) ==
    IF den = 0
    THEN IF num = 0 THEN [kind |-> "nan"] ELSE [kind |-> "inf"]
    ELSE LET sn == IF den < 0 THEN -num ELSE num
             sd == Abs(den)
             g  == GCD(Abs(sn), sd)
         IN  [kind |-> "fin", num |-> sn \div g, den |-> sd \div g]

NaN == [kind |-> "nan"]
Unset == [kind |-> "unset"]

---------------------------------------------------------------------------
(* gr.py: the periodic distance kernels *)

\* numpy.rint(n/d), d > 0: the nearest integer, a tie going to the even one.
rint_floor(n, d) == n \div d
rint(n, d) ==
    LET f   == n \div d
        rem == n - f * d
    IN  IF 2 * rem < d THEN f
        ELSE IF 2 * rem > d THEN f + 1
        ELSE IF f % 2 = 0 THEN f ELSE f + 1

\* gr.py lines 18-19 (and 25-26) for one row: r = x - y; r = r - rint(r/L) * L
wrap(xi, y, L) ==
    [a \in Axes |-> (xi[a] - y[a]) - rint(xi[a] - y[a], L[a]) * L[a]]

SumSq(v) == v[1] * v[1] + v[2] * v[2]

\* gr_kernel(x, y, L): x an array of rows, y one row; one distance per row of x.
gr_kernel(x, y, L) == [i \in 1..Len(x) |-> [sqrt |-> SumSq(wrap(x[i], y, L))]]

\* gr_kernel_square(x, y, L): the same without the square root.
gr_kernel_square(x, y, L) == [i \in 1..Len(x) |-> SumSq(wrap(x[i], y, L))]

---------------------------------------------------------------------------
(* numpy.histogram(values, edges): bin k is [edges[k], edges[k+1]), the last
   bin closed on the right; a value outside the edges is dropped. *)

GeEdge(v, e) == e <= 0 \/ v.sqrt * Scale * Scale >= e * e
LtEdge(v, e) == e > 0 /\ v.sqrt * Scale * Scale < e * e
LeEdge(v, e) == e >= 0 /\ v.sqrt * Scale * Scale <= e * e

InBin(v, edges, k) ==
    /\ GeEdge(v, edges[k])
    /\ IF k = Len(edges) - 1 THEN LeEdge(v, edges[k + 1]) ELSE LtEdge(v, edges[k + 1])

numpy_histogram(values, edges) ==
    [k \in 1..(Len(edges) - 1) |->
        Cardinality({i \in 1..Len(values) : InBin(values[i], edges, k)})]

HistAdd(a, b) == [k \in 1..Len(a) |-> a[k] + b[k]]

\* x[from:] with a 0-based from
Slice(x, from) == SubSeq(x, from + 1, Len(x))

---------------------------------------------------------------------------
(* gr.py: pairs_newton_hist and pairs_hist *)

BatchValues == 100000

\* line 35: bl = max(1, int(100 * 1000.0 / len(y)))
batch_len(n) == Max(1, BatchValues \div n)

\* lines 39-41 with the slice one row early: the pair (i, i) is included
RECURSIVE newton_rows_self(_, _, _, _, _)
newton_rows_self(x, y, L, i, stop) ==
    IF i >= stop THEN <<>>
    ELSE gr_kernel(Slice(x, i), y[i + 1], L) \o newton_rows_self(x, y, L, i + 1, stop)

\* lines 39-41: for i in range(ib, stop): fxy += f(x[i+1:], y[i], L)   (i 0-based)
RECURSIVE newton_rows(_, _, _, _, _)
newton_rows(x, y, L, i, stop) ==
    IF i >= stop THEN <<>>
    ELSE gr_kernel(Slice(x, i + 1), y[i + 1], L) \o newton_rows(x, y, L, i + 1, stop)

\* lines 36-43 with a batch that runs one row into the next batch
RECURSIVE newton_batches_overlap(_, _, _, _, _, _)
newton_batches_overlap(x, y, L, bins, bl, ib) ==
    IF ib >= Len(y) - 1 THEN numpy_histogram(<<>>, bins)
    ELSE HistAdd(numpy_histogram(newton_rows(x, y, L, ib, Min(ib + bl + 1, Len(y) - 1)), bins),
                 newton_batches_overlap(x, y, L, bins, bl, ib + bl))

\* lines 36-43: for ib in range(0, len(y)-1, bl): one histogram per batch
RECURSIVE newton_batches(_, _, _, _, _, _)
newton_batches(x, y, L, bins, bl, ib) ==
    IF ib >= Len(y) - 1 THEN numpy_histogram(<<>>, bins)
    ELSE HistAdd(numpy_histogram(newton_rows(x, y, L, ib, Min(ib + bl, Len(y) - 1)), bins),
                 newton_batches(x, y, L, bins, bl, ib + bl))

\* line 35 divides by len(y): ZeroDivisionError on an empty y
newton_raises(y) == Len(y) = 0

\* pairs_newton_hist(gr_kernel, x, y, L, bins), for a y on which it does not raise
pairs_newton_hist(x, y, L, bins) ==
    newton_batches(x, y, L, bins, batch_len(Len(y)), 0)

\* lines 51-54 stopping one row of y early
RECURSIVE pairs_rows_short(_, _, _, _, _)
pairs_rows_short(x, y, L, bins, i) ==
    IF i >= Len(y) - 1 THEN numpy_histogram(<<>>, bins)
    ELSE HistAdd(numpy_histogram(gr_kernel(x, y[i + 1], L), bins),
                 pairs_rows_short(x, y, L, bins, i + 1))

\* lines 51-54: for i in range(len(y)): hist += histogram(f(x[:], y[i], L))
RECURSIVE pairs_rows(_, _, _, _, _)
pairs_rows(x, y, L, bins, i) ==
    IF i >= Len(y) THEN numpy_histogram(<<>>, bins)
    ELSE HistAdd(numpy_histogram(gr_kernel(x, y[i + 1], L), bins),
                 pairs_rows(x, y, L, bins, i + 1))

\* pairs_hist(gr_kernel, x, y, L, bins)
pairs_hist(x, y, L, bins) == pairs_rows(x, y, L, bins, 0)

---------------------------------------------------------------------------
(* Values the variables of a component hold while another component runs *)

NoCall == [f |-> "none"]

\* A key the results mapping does not hold
Absent == [kind |-> "absent"]
NoResults == [t_star |-> Absent, a2_star |-> Absent]

KernelIdle ==
    /\ k_x = <<>> /\ k_y = <<0, 0>> /\ k_L = <<1, 1>> /\ k_r = <<>> /\ k_out = NoCall

HistIdle ==
    /\ h_x = <<>> /\ h_y = <<>> /\ h_L = <<1, 1>> /\ h_bins = <<>>
    /\ h_bl = 0 /\ h_hist = <<>> /\ h_mode = "idle"

GrIdle ==
    /\ frames = <<>> /\ grandcanonical = FALSE /\ same_roles = FALSE
    /\ rgrid = <<>> /\ dr = 0
    /\ N_0 = Unset /\ N_1 = Unset /\ r = <<>> /\ gr_all = <<>>
    /\ engine_calls = <<>> /\ status = "constructed" /\ ncomputes = 0

A2Idle ==
    /\ pos_unf = <<>> /\ discrete_tgrid = <<>> /\ timestep = 1
    /\ results = NoResults /\ a2_call = NoCall
    /\ nanalyze = 0 /\ analyze_status = "none"

AttrIdle == skip = 1 /\ side = <<1, 1>> /\ grid = <<>> /\ value = <<>>

---------------------------------------------------------------------------
(* SpecKernel: one call of gr_kernel or gr_kernel_square *)

Neg(p) == [a \in Axes |-> -p[a]]

KPoints == [Axes -> (-MaxPos)..MaxPos]

InitKernel ==
    /\ k_x \in UNION {{<<p>>, <<p, Neg(p)>>} : p \in KPoints}
    /\ k_y \in {<<0, 0>>, <<1, -2>>}
    /\ k_L \in [Axes -> 1..MaxL]
    /\ k_r = <<>>
    /\ k_out = NoCall
    /\ HistIdle /\ GrIdle /\ A2Idle /\ AttrIdle

\* k_r is the local r after line 19 (26), one row per row of x.
CallGrKernel ==
    /\ k_out = NoCall
    /\ k_r' = [i \in 1..Len(k_x) |-> wrap(k_x[i], k_y, k_L)]
    /\ k_out' = [f |-> "gr_kernel", val |-> gr_kernel(k_x, k_y, k_L)]
    /\ UNCHANGED <<k_x, k_y, k_L, histVars, grInputs, grLocals, a2Vars,
                   skip, side, grid, value>>

CallGrKernelSquare ==
    /\ k_out = NoCall
    /\ k_r' = [i \in 1..Len(k_x) |-> wrap(k_x[i], k_y, k_L)]
    /\ k_out' = [f |-> "gr_kernel_square", val |-> gr_kernel_square(k_x, k_y, k_L)]
    /\ UNCHANGED <<k_x, k_y, k_L, histVars, grInputs, grLocals, a2Vars,
                   skip, side, grid, value>>

NextKernel == CallGrKernel \/ CallGrKernelSquare

SpecKernel == InitKernel /\ [][NextKernel]_vars

\* C5: after either kernel has wrapped its displacements, every component of
\* every wrapped displacement is at most half the period of its axis in
\* absolute value, whatever the (strictly positive, possibly unequal) periods.
C5_WrappedWithinHalfPeriod ==
    k_out # NoCall =>
        \A i \in 1..Len(k_r) : \A a \in Axes : 2 * Abs(k_r[i][a]) <= k_L[a]

\* A call on a non-cubic box where a raw difference exceeds half the period
\* on one axis and sits exactly on the half period on the other.
C5_Witness ==
    /\ k_out # NoCall
    /\ k_L[1] # k_L[2]
    /\ \E i \in 1..Len(k_x) :
          /\ 2 * Abs(k_x[i][1] - k_y[1]) > 3 * k_L[1]
          /\ 2 * Abs(k_x[i][2] - k_y[2]) = k_L[2]
          /\ k_r[i][1] # k_x[i][1] - k_y[1]

---------------------------------------------------------------------------
(* SpecHist: one call of pairs_newton_hist or pairs_hist *)

HPoints == {<<0, 0>>, <<0, 3>>, <<2, 1>>}

Arrays(n) == UNION {[1..m -> HPoints] : m \in 0..n}

Edges(s) == [k \in 1..Len(s) |-> s[k] * Scale]

\* box and bin edges: every distance in range; coarse bins on a non-cubic box;
\* bins that cover only part of the distances
HConfigs ==
    { [L |-> <<4, 4>>, bins |-> Edges(<<0, 1, 2, 3>>)],
      [L |-> <<4, 6>>, bins |-> Edges(<<0, 2, 4>>)],
      [L |-> <<4, 6>>, bins |-> Edges(<<1, 2, 3>>)] }

InitHist ==
    /\ h_x \in Arrays(MaxN)
    /\ h_y = <<>>
    /\ \E c \in HConfigs : h_L = c.L /\ h_bins = c.bins
    /\ h_bl = 0 /\ h_hist = <<>> /\ h_mode = "idle"
    /\ KernelIdle /\ GrIdle /\ A2Idle /\ AttrIdle

\* pairs_newton_hist(gr_kernel, x, x, L, bins): x and y the same set
CallPairsNewtonHist ==
    /\ h_mode = "idle"
    /\ IF newton_raises(h_x)
       THEN h_mode' = "raised" /\ UNCHANGED <<h_bl, h_hist>>
       ELSE /\ h_mode' = "newton"
            /\ h_bl' = batch_len(Len(h_x))
            /\ h_hist' = pairs_newton_hist(h_x, h_x, h_L, h_bins)
    /\ UNCHANGED <<h_x, h_y, h_L, h_bins, kernelVars, grInputs, grLocals, a2Vars,
                   skip, side, grid, value>>

\* lines 36-44 on a non-empty x under a batch size bl given from outside
CallPairsNewtonHistBatch(bl) ==
    /\ h_mode = "idle"
    /\ Len(h_x) >= 1
    /\ h_mode' = "newton_bl"
    /\ h_bl' = bl
    /\ h_hist' = newton_batches(h_x, h_x, h_L, h_bins, bl, 0)
    /\ UNCHANGED <<h_x, h_y, h_L, h_bins, kernelVars, grInputs, grLocals, a2Vars,
                   skip, side, grid, value>>

\* pairs_hist(gr_kernel, x, y, L, bins) on a second set y
CallPairsHist(y) ==
    /\ h_mode = "idle"
    /\ h_mode' = "cross"
    /\ h_y' = y
    /\ h_bl' = 0
    /\ h_hist' = pairs_hist(h_x, y, h_L, h_bins)
    /\ UNCHANGED <<h_x, h_L, h_bins, kernelVars, grInputs, grLocals, a2Vars,
                   skip, side, grid, value>>

NextHist ==
    \/ CallPairsNewtonHist
    \/ \E bl \in 1..MaxBl : CallPairsNewtonHistBatch(bl)
    \/ \E y \in Arrays(MaxM) : CallPairsHist(y)

SpecHist == InitHist /\ [][NextHist]_vars

\* The brute-force reference: the distance of the ordered pair (i, j)
PairDist(x, y, i, j, L) == [sqrt |-> SumSq(wrap(x[j], y[i], L))]

InRange(v, edges) == GeEdge(v, edges[1]) /\ LeEdge(v, edges[Len(edges)])

UpperPairs(n) == {p \in (1..n) \X (1..n) : p[1] < p[2]}

\* C1: on a self-pair input of N >= 1 particles the counts are the histogram
\* of the i < j entries of the full N x N distance matrix (each unordered pair
\* once, no pair (i, i)), and they sum to N*(N-1)/2 when every distance is
\* inside the bin range.
C1_NewtonIsUpperTriangle ==
    (h_mode \in {"newton", "newton_bl"} /\ Len(h_x) >= 1) =>
        LET n == Len(h_x) IN
        /\ h_hist = [k \in 1..(Len(h_bins) - 1) |->
                        Cardinality({p \in UpperPairs(n) :
                            InBin(PairDist(h_x, h_x, p[1], p[2], h_L), h_bins, k)})]
        /\ (\A p \in UpperPairs(n) : InRange(PairDist(h_x, h_x, p[1], p[2], h_L), h_bins))
              => SeqSum(h_hist) = (n * (n - 1)) \div 2

\* pairs_newton_hist itself has run on three or more particles, two of them
\* at the same position, with every distance in range.
C1_Witness ==
    /\ h_mode = "newton"
    /\ Len(h_x) >= 3
    /\ h_x[1] = h_x[2]
    /\ SeqSum(h_hist) = (Len(h_x) * (Len(h_x) - 1)) \div 2

\* C2: the histogram is the same, bin for bin, for every batch size: the one
\* computed under the batch size used equals the one under any other size
\* and the one under the size line 35 computes.
C2_BatchSizeIrrelevant ==
    h_mode = "newton_bl" =>
        /\ \A b \in 1..(MaxBl + 1) : newton_batches(h_x, h_x, h_L, h_bins, b, 0) = h_hist
        /\ pairs_newton_hist(h_x, h_x, h_L, h_bins) = h_hist

\* A batch size that does not divide len(y)-1, so that the last batch is cut
\* short, with a non-zero count.
C2_Witness ==
    /\ h_mode = "newton_bl"
    /\ h_bl > 1
    /\ h_bl < Len(h_x) - 1
    /\ (Len(h_x) - 1) % h_bl # 0
    /\ SeqSum(h_hist) > 0

\* C10: in cross-pair mode every ordered pair (X[j], Y[i]) is evaluated once
\* and none is excluded: the counts are the histogram of the full N x M
\* distance matrix, they sum to N*M when every distance is in range, and a
\* position present in both sets puts its zero distance in the bin holding 0.
C10_CrossCountsEveryPair ==
    h_mode = "cross" =>
        LET n == Len(h_x)
            m == Len(h_y)
            all == (1..m) \X (1..n)
        IN
        /\ h_hist = [k \in 1..(Len(h_bins) - 1) |->
                        Cardinality({p \in all :
                            InBin(PairDist(h_x, h_y, p[1], p[2], h_L), h_bins, k)})]
        /\ (\A p \in all : InRange(PairDist(h_x, h_y, p[1], p[2], h_L), h_bins))
              => SeqSum(h_hist) = n * m
        /\ (h_bins[1] = 0 /\ \E p \in all : h_x[p[2]] = h_y[p[1]]) => h_hist[1] >= 1

\* A cross call on sets that share a position, two rows in y, all in range.
C10_Witness ==
    /\ h_mode = "cross"
    /\ Len(h_y) >= 2 /\ Len(h_x) >= 2
    /\ h_bins[1] = 0
    /\ \E i \in 1..Len(h_y) : \E j \in 1..Len(h_x) : h_x[j] = h_y[i]
    /\ SeqSum(h_hist) = Len(h_x) * Len(h_y)

---------------------------------------------------------------------------
(* gr.py: RadialDistributionFunction *)

\* helpers.linear_grid(start, stop, step) with a float step:
\* start, start + step, ... up to and including stop (fixed-point arguments)
linear_grid(start, stop, step) ==
    [i \in 1..((stop - start) \div step + 1) |-> start + (i - 1) * step]

\* __init__ lines 82-89: self.grid holds the bin edges. rgrid = <<>> stands
\* for None; rgrid and dr come in lattice units.
init_grid(rg, side0, step) ==
    IF rg # <<>>
    THEN LET half == ((rg[2] - rg[1]) * Scale) \div 2
         IN  [i \in 1..(Len(rg) + 1) |->
                IF i <= Len(rg) THEN rg[i] * Scale - half
                ELSE rg[Len(rg)] * Scale + half]
    ELSE linear_grid(0, (side0[1] * Scale) \div 2, step * Scale)

\* line 103 with "and" for "or"
degenerate_frame_both(p0, p1) == Len(p0) = 0 /\ Len(p1) = 0

\* line 103: len(self._pos_0[i]) == 0 or len(self._pos_1[i]) == 0
degenerate_frame(p0, p1) == Len(p0) = 0 \/ Len(p1) = 0

\* lines 93-97: the populations as quotients; which is 0 for _pos_0, 1 for _pos_1
RECURSIVE CountSum(_, _, _)
CountSum(fr, which, i) ==
    IF i > Len(fr) THEN 0
    ELSE Len(IF which = 0 THEN fr[i].pos_0 ELSE fr[i].pos_1) + CountSum(fr, which, i + 1)

\* lines 93-97 taking the else branch whatever the trajectory
population_first(fr, gc, which) ==
    Quot(Len(IF which = 0 THEN fr[1].pos_0 ELSE fr[1].pos_1), 1)

population(fr, gc, which) ==
    IF gc THEN Quot(CountSum(fr, which, 1), Len(fr))
    ELSE Quot(Len(IF which = 0 THEN fr[1].pos_0 ELSE fr[1].pos_1), 1)

\* lines 101-111: the loop over the frames 0, skip, 2*skip, ... (i 0-based).
\* acc = [gr_all, calls, side, raised]
RECURSIVE frame_loop(_, _, _, _, _, _)
frame_loop(fr, same, sk, edges, i, acc) ==
    IF i >= Len(fr) \/ acc.raised THEN acc
    ELSE LET f    == fr[i + 1]
             acc1 == [acc EXCEPT !.side = f.side]
         IN  IF degenerate_frame(f.pos_0, f.pos_1)
             THEN frame_loop(fr, same, sk, edges, i + sk, acc1)
             ELSE IF same /\ newton_raises(f.pos_1)
             THEN [acc1 EXCEPT !.raised = TRUE, !.calls = Append(@, i)]
             ELSE frame_loop(fr, same, sk, edges, i + sk,
                    [acc1 EXCEPT
                       !.calls = Append(@, i),
                       !.gr_all = Append(@,
                           IF same
                           THEN pairs_newton_hist(f.pos_0, f.pos_1, f.side, edges)
                           ELSE pairs_hist(f.pos_0, f.pos_1, f.side, edges))])

\* the per-bin sum in place of the per-bin mean
RECURSIVE BinSum(_, _, _)
BinSum(all, k, i) == IF i > Len(all) THEN 0 ELSE all[i][k] + BinSum(all, k, i + 1)

numpy_sum(all, nbins) == [k \in 1..nbins |-> [num |-> BinSum(all, k, 1), den |-> 1]]

\* line 120: numpy.average(gr_all, axis=0), bin k as the pair sum / count;
\* on an empty gr_all it is nan (0 / 0), which line 122 broadcasts to every bin
numpy_average(all, nbins) ==
    [k \in 1..nbins |-> [num |-> BinSum(all, k, 1), den |-> Len(all)]]

\* lines 114-122. value[k] is kept without the common factor 4*pi/3 of vol:
\* value[k] * (4*pi/3) = avg[k] / (rho * (r[k+1]^3 - r[k]^3) * N_0 * (0.5 | 1))
normalize(avg, edges, n0, n1, sd, same) ==
    [k \in 1..(Len(edges) - 1) |->
        Quot(avg[k].num * (sd[1] * sd[2]) * n1.den * n0.den
                 * (Scale * Scale * Scale) * (IF same THEN 2 ELSE 1),
             avg[k].den * n1.num * n0.num
                 * (edges[k + 1] * edges[k + 1] * edges[k + 1]
                      - edges[k] * edges[k] * edges[k]))]

\* line 121: (r[:-1] + r[1:]) / 2.0
centers(edges) == [k \in 1..(Len(edges) - 1) |-> (edges[k] + edges[k + 1]) \div 2]

\* _compute as a function of the estimator's state: the locals and the
\* attributes it leaves behind
compute(fr, gc, same, sk, g, sd, val) ==
    LET n0   == population(fr, gc, 0)
        n1   == population(fr, gc, 1)
        acc  == frame_loop(fr, same, sk, g, 0,
                           [gr_all |-> <<>>, calls |-> <<>>, side |-> sd, raised |-> FALSE])
    IN  IF acc.raised
        THEN [N_0 |-> n0, N_1 |-> n1, r |-> g, gr_all |-> acc.gr_all, calls |-> acc.calls,
              side |-> acc.side, grid |-> g, value |-> val, status |-> "raised"]
        ELSE [N_0 |-> n0, N_1 |-> n1, r |-> g, gr_all |-> acc.gr_all, calls |-> acc.calls,
              side |-> acc.side, grid |-> centers(g),
              value |-> normalize(numpy_average(acc.gr_all, Len(g) - 1), g, n0, n1,
                                  acc.side, same),
              status |-> "done"]

GA0 == {<<>>, << <<0, 0>> >>, << <<0, 0>>, <<0, 3>> >>}
GA1 == {<<>>, << <<0, 0>>, <<2, 1>> >>}
Sides == {<<4, 4>>, <<4, 6>>}

FrameSet(same) ==
    IF same
    THEN {[pos_0 |-> a, pos_1 |-> a, side |-> s] : a \in GA0, s \in Sides}
    ELSE {[pos_0 |-> a, pos_1 |-> b, side |-> s] : a \in GA0, b \in GA1, s \in Sides}

\* A trajectory that is not grand-canonical keeps its particle numbers.
ConstantCounts(fr) ==
    \A i \in 1..Len(fr) :
        /\ Len(fr[i].pos_0) = Len(fr[1].pos_0)
        /\ Len(fr[i].pos_1) = Len(fr[1].pos_1)

\* The state after __init__; the trajectory, the role identity, the stride
\* (adjust_skip) and the grid arguments are inputs.
InitGr ==
    /\ same_roles \in BOOLEAN
    /\ grandcanonical \in BOOLEAN
    /\ frames \in UNION {[1..n -> FrameSet(same_roles)] : n \in 1..MaxFrames}
    /\ grandcanonical \/ ConstantCounts(frames)
    /\ skip \in 1..MaxSkip
    /\ rgrid \in {<<>>, <<1, 2>>, <<0, 2, 4>>}
    /\ dr = 1
    /\ side = frames[1].side
    /\ grid = init_grid(rgrid, side, dr)
    /\ value = <<>>
    /\ N_0 = Unset /\ N_1 = Unset /\ r = <<>> /\ gr_all = <<>>
    /\ engine_calls = <<>> /\ status = "constructed" /\ ncomputes = 0
    /\ KernelIdle /\ HistIdle /\ A2Idle

\* RadialDistributionFunction._compute()
Compute ==
    /\ ncomputes < MaxComputes
    /\ status # "raised"
    /\ \E c \in {compute(frames, grandcanonical, same_roles, skip, grid, side, value)} :
           /\ N_0' = c.N_0 /\ N_1' = c.N_1 /\ r' = c.r
           /\ gr_all' = c.gr_all /\ engine_calls' = c.calls
           /\ side' = c.side /\ grid' = c.grid /\ value' = c.value
           /\ status' = c.status
    /\ ncomputes' = ncomputes + 1
    /\ UNCHANGED <<grInputs, skip, kernelVars, histVars, a2Vars>>

NextGr == Compute

SpecGr == InitGr /\ [][NextGr]_vars

\* The frames (0-based) the loop visits, and those of them it processes
Sampled == {i \in 0..(Len(frames) - 1) : i % skip = 0}

Processed ==
    {i \in Sampled : Len(frames[i + 1].pos_0) > 0 /\ Len(frames[i + 1].pos_1) > 0}

RECURSIVE SetCount(_, _)
SetCount(S, which) ==
    IF S = {} THEN 0
    ELSE LET i == CHOOSE j \in S : TRUE
         IN  Len(IF which = 0 THEN frames[i + 1].pos_0 ELSE frames[i + 1].pos_1)
               + SetCount(S \ {i}, which)

\* C3: the count N_0 and the count N_1 behind rho are the arithmetic means of
\* the role-0 and role-1 particle counts over the frames actually processed.
C3_PopulationsOverProcessedFrames ==
    (ncomputes >= 1 /\ Processed # {}) =>
        /\ N_0 = Quot(SetCount(Processed, 0), Cardinality(Processed))
        /\ N_1 = Quot(SetCount(Processed, 1), Cardinality(Processed))

\* C3 as amended: for a grand-canonical trajectory N_0 and N_1 are the
\* arithmetic means of the role-0 and role-1 counts over all the frames of
\* the trajectory, sampled or not and empty or not; otherwise they are the
\* counts of the first frame.
AllFrames == 0..(Len(frames) - 1)

C3_PopulationsOverAllFrames ==
    ncomputes >= 1 =>
        IF grandcanonical
        THEN /\ N_0 = Quot(SetCount(AllFrames, 0), Len(frames))
             /\ N_1 = Quot(SetCount(AllFrames, 1), Len(frames))
        ELSE /\ N_0 = Quot(Len(frames[1].pos_0), 1)
             /\ N_1 = Quot(Len(frames[1].pos_1), 1)

\* A grand-canonical trajectory, sampled with stride 2, whose unsampled frame
\* holds another number of particles than the processed one.
C3_Witness ==
    /\ ncomputes >= 1
    /\ grandcanonical
    /\ skip = 2
    /\ Len(frames) = 2
    /\ Processed = {0}
    /\ Len(frames[2].pos_0) # Len(frames[1].pos_0)
    /\ N_0 # Quot(SetCount(Processed, 0), Cardinality(Processed))

\* C6: a sampled frame with an empty role is skipped silently: _compute does
\* not raise, the engine is invoked on exactly the sampled frames with both
\* roles populated, in order, and one histogram per such frame is averaged.
C6_DegenerateFramesSkipped ==
    ncomputes >= 1 =>
        /\ status = "done"
        /\ Len(engine_calls) = Cardinality(Processed)
        /\ \A n \in 1..Len(engine_calls) : engine_calls[n] \in Processed
        /\ \A n \in 1..(Len(engine_calls) - 1) : engine_calls[n] < engine_calls[n + 1]
        /\ Len(gr_all) = Cardinality(Processed)

\* _compute has run over a trajectory with a degenerate sampled frame and a
\* populated one.
C6_Witness ==
    /\ ncomputes >= 1
    /\ status = "done"
    /\ Processed # {}
    /\ Sampled \ Processed # {}

TwoAlikeFrames ==
    /\ ncomputes >= 1
    /\ status = "done"
    /\ Len(frames) = 2
    /\ Processed = {0, 1}
    /\ gr_all[1] = gr_all[2]
    /\ Len(frames[1].pos_0) = Len(frames[2].pos_0)
    /\ Len(frames[1].pos_1) = Len(frames[2].pos_1)
    /\ frames[1].side = frames[2].side

\* C7: histograms are averaged, not summed: over two processed frames with
\* the same histogram, particle counts and box, value is, bin for bin, the
\* value _compute produces from the same edges for one such frame alone.
C7_MeanNotSum ==
    TwoAlikeFrames =>
        value = compute(<<frames[1]>>, grandcanonical, same_roles, skip, r,
                        frames[1].side, <<>>).value

\* Two alike processed frames whose histogram is not empty.
C7_Witness ==
    /\ TwoAlikeFrames
    /\ \E k \in 1..Len(value) : value[k].kind = "fin" /\ value[k].num > 0

\* The bin edges fixed at construction
edges_at_init == init_grid(rgrid, frames[1].side, dr)

\* C9: after every _compute invocation on one estimator object, the first
\* and any repeated one, grid and value have the same length, that length is
\* nbins = len(edges) - 1 for the edges fixed at construction, and grid[k] is
\* the center of bin k.
C9_GridIsBinCenters ==
    (ncomputes >= 1 /\ status = "done") =>
        /\ Len(grid) = Len(value)
        /\ Len(grid) = Len(edges_at_init) - 1
        /\ \A k \in 1..Len(grid) :
              2 * grid[k] = edges_at_init[k] + edges_at_init[k + 1]

\* The same, of the first invocation alone
C9_FirstInvocation ==
    (ncomputes = 1 /\ status = "done") =>
        /\ Len(grid) = Len(value)
        /\ Len(grid) = Len(edges_at_init) - 1
        /\ \A k \in 1..Len(grid) :
              2 * grid[k] = edges_at_init[k] + edges_at_init[k + 1]

---------------------------------------------------------------------------
(* alpha2.py: non_gaussian_parameter *)

\* sum over rows i and axes of (x - y)**2, and over rows of its row sums squared
RECURSIVE SumDx2(_, _, _)
SumDx2(x, y, i) ==
    IF i > Len(x) THEN 0
    ELSE SumSq([a \in Axes |-> x[i][a] - y[i][a]]) + SumDx2(x, y, i + 1)

RECURSIVE SumDx4(_, _, _)
SumDx4(x, y, i) ==
    IF i > Len(x) THEN 0
    ELSE LET d == SumSq([a \in Axes |-> x[i][a] - y[i][a]])
         IN  d * d + SumDx4(x, y, i + 1)

\* lines 18-21: 3*dr4 / (5*dr2**2) - 1 with dr2 = S2/N and dr4 = S4/N;
\* nan when N = 0 or when nothing moved (0/0)
moment_ratio(x, y) ==
    LET n  == Len(x)
        s2 == SumDx2(x, y, 1)
        s4 == SumDx4(x, y, 1)
    IN  IF n = 0 THEN NaN ELSE Quot(3 * s4 * n - 5 * s2 * s2, 5 * s2 * s2)

\* lines 15-21 without the identity test of lines 16-17
ngp_no_shortcut(store, xi, yi) ==
    [val |-> moment_ratio(store[xi], store[yi]), divided |-> TRUE]

\* non_gaussian_parameter(x, y). The arguments are references into store:
\* "x is y" holds when they are the same reference, not when the arrays
\* hold the same numbers.
non_gaussian_parameter(store, xi, yi) ==
    IF xi = yi
    THEN [val |-> Quot(0, 1), divided |-> FALSE]
    ELSE [val |-> moment_ratio(store[xi], store[yi]), divided |-> TRUE]

---------------------------------------------------------------------------
(* alpha2.py: NonGaussianParameter *)

RatAdd(a, b) ==
    IF a.kind # "fin" \/ b.kind # "fin" THEN NaN
    ELSE Quot(a.num * b.den + b.num * a.den, a.den * b.den)

RatLess(a, b) == a.num * b.den < b.num * a.den

\* correlation.gcf_offset for one lag: the mean of f(x[i0], x[i0 + lag]) over
\* the origins i0 = 0, skip, 2*skip, ... that leave room for the lag
Origins(store, lag, sk) == {i \in 1..(Len(store) - lag) : (i - 1) % sk = 0}

RECURSIVE OriginSum(_, _, _)
OriginSum(store, lag, S) ==
    IF S = {} THEN Quot(0, 1)
    ELSE LET i == CHOOSE j \in S : TRUE
         IN  RatAdd(non_gaussian_parameter(store, i, i + lag).val,
                    OriginSum(store, lag, S \ {i}))

lag_mean(store, lag, sk) ==
    LET sum == OriginSum(store, lag, Origins(store, lag, sk))
    IN  IF sum.kind # "fin" THEN NaN
        ELSE Quot(sum.num, sum.den * Cardinality(Origins(store, lag, sk)))

\* correlation.gcf_offset: one point per lag of the discrete grid that has
\* an origin
RECURSIVE gcf_offset(_, _, _)
gcf_offset(tg, sk, store) ==
    IF tg = <<>> THEN [grid |-> <<>>, value |-> <<>>]
    ELSE LET rest == gcf_offset(Tail(tg), sk, store)
         IN  IF Origins(store, Head(tg), sk) = {} THEN rest
             ELSE [grid  |-> <<Head(tg)>> \o rest.grid,
                   value |-> <<lag_mean(store, Head(tg), sk)>> \o rest.value]

\* helpers.ifabsmm(grid, value)[1]: the point (t, v) of the absolute maximum;
\* it fails on an empty curve, on a curve shorter than its grid and on a nan
RECURSIVE ArgMax(_, _)
ArgMax(v, n) ==
    IF n = 1 THEN 1
    ELSE LET m == ArgMax(v, n - 1) IN IF RatLess(v[m], v[n]) THEN n ELSE m

ifabsmm_max(g, v) ==
    IF Len(v) = 0 \/ Len(g) # Len(v) \/ \E k \in 1..Len(v) : v[k].kind # "fin"
    THEN [raised |-> TRUE]
    ELSE [raised |-> FALSE, t |-> g[ArgMax(v, Len(v))], v |-> v[ArgMax(v, Len(v))]]

Val(u) == [kind |-> "val", v |-> u]

\* analyze without the try/except of lines 43 and 46-47
analyze_uncaught(res, g, v) ==
    LET peak == ifabsmm_max(g, v)
    IN  IF peak.raised THEN [results |-> res, status |-> "raised"]
        ELSE [results |-> [t_star |-> Val(peak.t), a2_star |-> Val(peak.v)],
              status |-> "returned"]

\* analyze, lines 42-47: the right-hand side of line 45 is evaluated and
\* unpacked before either key is stored; any exception is swallowed
analyze(res, g, v) ==
    LET peak == ifabsmm_max(g, v)
    IN  IF peak.raised THEN [results |-> res, status |-> "returned"]
        ELSE [results |-> [t_star |-> Val(peak.t), a2_star |-> Val(peak.v)],
              status |-> "returned"]

A2Points == {<<0, 0>>, <<1, 2>>}
A2Arrays(n) == [1..n -> A2Points]

\* The state after __init__: the unfolded positions of every frame (the same
\* particles in each), the discrete lags (setup_t_grid) and the stride
\* (adjust_skip) are inputs; grid holds the requested times, value no curve.
InitA2 ==
    /\ \E n \in 0..2 : pos_unf \in UNION {[1..t -> A2Arrays(n)] : t \in 1..MaxSamples}
    /\ discrete_tgrid \in {<<>>, <<0>>, <<0, 1>>, <<1, 2>>}
    /\ timestep = 2
    /\ skip \in 1..MaxSkip
    /\ grid = [k \in 1..Len(discrete_tgrid) |-> discrete_tgrid[k] * timestep]
    /\ value = <<>>
    /\ results = NoResults
    /\ a2_call = NoCall
    /\ nanalyze = 0 /\ analyze_status = "none"
    /\ side = <<1, 1>>
    /\ KernelIdle /\ HistIdle /\ GrIdle

\* One call non_gaussian_parameter(x, y) on two frames of the trajectory
CallNonGaussianParameter(i, j) ==
    /\ a2_call = NoCall
    /\ nanalyze = 0 /\ value = <<>>
    /\ \E out \in {non_gaussian_parameter(pos_unf, i, j)} :
           a2_call' = [f |-> "non_gaussian_parameter", x |-> i, y |-> j,
                       val |-> out.val, divided |-> out.divided]
    /\ UNCHANGED <<pos_unf, discrete_tgrid, timestep, results, nanalyze, analyze_status,
                   skip, side, grid, value, kernelVars, histVars, grInputs, grLocals>>

\* NonGaussianParameter._compute(), lines 36-40
ComputeA2 ==
    /\ a2_call = NoCall
    /\ \E c \in {gcf_offset(discrete_tgrid, skip, pos_unf)} :
           /\ grid' = [k \in 1..Len(c.grid) |-> c.grid[k] * timestep]
           /\ value' = c.value
    /\ UNCHANGED <<a2Vars, skip, side, kernelVars, histVars, grInputs, grLocals>>

\* NonGaussianParameter.analyze()
Analyze ==
    /\ a2_call = NoCall
    /\ nanalyze < MaxAnalyze
    /\ analyze_status # "raised"
    /\ \E a \in {analyze(results, grid, value)} :
           results' = a.results /\ analyze_status' = a.status
    /\ nanalyze' = nanalyze + 1
    /\ UNCHANGED <<pos_unf, discrete_tgrid, timestep, a2_call,
                   skip, side, grid, value, kernelVars, histVars, grInputs, grLocals>>

NextA2 ==
    \/ \E i \in 1..Len(pos_unf) : \E j \in 1..Len(pos_unf) : CallNonGaussianParameter(i, j)
    \/ ComputeA2
    \/ Analyze

SpecA2 == InitA2 /\ [][NextA2]_vars

\* C4: non_gaussian_parameter(x, x), both arguments the same sample, returns
\* exactly 0.0 and evaluates no division, whatever x holds.
C4_ZeroLagIsZero ==
    (a2_call # NoCall /\ a2_call.x = a2_call.y) =>
        /\ a2_call.val = [kind |-> "fin", num |-> 0, den |-> 1]
        /\ ~a2_call.divided

\* The kernel has been called on one non-empty sample as both arguments.
C4_Witness ==
    /\ a2_call # NoCall
    /\ a2_call.x = a2_call.y
    /\ Len(pos_unf[a2_call.x]) > 0

\* C8: analyze never propagates a failure of the peak derivation: it returns
\* normally, leaves results unchanged when the derivation fails, and records
\* both 't_star' and 'a2_star' or neither.
C8_AnalyzeSwallowsFailure ==
    [][nanalyze' = nanalyze + 1 =>
          /\ analyze_status' = "returned"
          /\ ifabsmm_max(grid, value).raised => results' = results
          /\ (results'.t_star = Absent) <=> (results'.a2_star = Absent)]_vars

\* analyze has returned from a failed derivation, nothing recorded.
C8_Witness ==
    /\ nanalyze >= 1
    /\ analyze_status = "returned"
    /\ ifabsmm_max(grid, value).raised
    /\ results = NoResults

=============================================================================
